---- MODULE Spec2Model ----
(***************************************************************************)
(* Model of view_audit_logs.py: the audit directory locator, the session   *)
(* loader, the session renderer and main's discovery loop.                 *)
(*                                                                         *)
(* The filesystem and the environment are the program's inputs: env holds  *)
(* what find_audit_directory can observe, files holds what                 *)
(* audit_dir.glob("session-*.jsonl") enumerates.  stdout and stderr are    *)
(* the sequences of print calls made on each channel.                      *)
(***************************************************************************)
EXTENDS Integers, Sequences, FiniteSets, TLC

VARIABLES
    env,             \* what the locator observes: snap glob matches, XDG_DATA_HOME, path kinds
    files,           \* session-*.jsonl files of the directory, in enumeration order
    pc,              \* position of main: start, located, loop, render, done, crashed
    audit_dir,       \* main's audit_dir (None or a path)
    session_files,   \* main's session_files after the sort
    idx,             \* 1-based position of main's for loop in session_files[:5]
    events,          \* analyze_session's events
    ev,              \* 1-based position of analyze_session's for loop in events
    tool_count,      \* analyze_session's tool_count
    mcp_tool_count,  \* analyze_session's mcp_tool_count
    stdout,          \* print calls on standard output, in order
    stderr,          \* lines on standard error, in order
    analysed,        \* ids of the files analyze_session was called on, in call order
    opened,          \* ids of the files open() was called on, in call order
    mark             \* Len(stdout) when the current/last analyze_session call began

vars == <<env, files, pc, audit_dir, session_files, idx, events, ev, tool_count,
          mcp_tool_count, stdout, stderr, analysed, opened, mark>>

----------------------------------------------------------------------------
(* Bounds of the model *)

MaxSnap == 2        \* most matches of the snap glob pattern
MaxFiles == 3       \* most session files in the error-handling runs
MaxListed == 6      \* most session files in the selection runs
MaxMtime == 2       \* modification times are 1..MaxMtime
MaxLines == 3       \* most lines of a file in the loader runs
MaxEvents == 3      \* most events of a session in the counter runs
MaxTextLen == 202   \* longest input / output text in the truncation runs

(* Program constants *)

UserInputLimit == 100
OutputLimit == 200
LatestSessions == 5

----------------------------------------------------------------------------
(* Text: a Python str as a sequence of one-character strings *)

Text(n) == [i \in 1..n |-> IF i % 3 = 1 THEN "a" ELSE IF i % 3 = 2 THEN "b" ELSE "c"]

Ellipsis == <<".", ".", ".">>

Min(a, b) == IF a < b THEN a ELSE b

Take(s, n) == SubSeq(s, 1, Min(n, Len(s)))

----------------------------------------------------------------------------
(* Lines of a session file.  kind is "blank" (empty or whitespace only),   *)
(* "bad" (json.loads raises) or "json" (json.loads returns a value).  A    *)
(* JSON value is an object (obj) with the top-level keys in has, or some   *)
(* other value (a number, a list, null).  data is the event's data object  *)
(* with its keys in data.has.                                              *)

NoData ==
    [has |-> {}, tool_name |-> "", mcp_server |-> "", status |-> "",
     input |-> <<>>, output |-> <<>>, duration_ms |-> 0,
     model_id |-> "", interactive |-> FALSE]

Event(type) ==
    [kind |-> "json", obj |-> TRUE, has |-> {"type", "ts", "session_id", "data"},
     type |-> type, ts |-> "2024-05-01T10:00:00Z", session_id |-> "s1",
     data |-> NoData]

Blank == [Event("") EXCEPT !.kind = "blank", !.obj = FALSE, !.has = {}]
Bad == [Event("") EXCEPT !.kind = "bad", !.obj = FALSE, !.has = {}]
NonObject == [Event("") EXCEPT !.obj = FALSE, !.has = {}]

Without(e, key) == [e EXCEPT !.has = @ \ {key}]

SessionStart ==
    [Event("session_start") EXCEPT !.data.has = {"model_id"}, !.data.model_id = "m1"]
SessionEnd == Event("session_end")
UserInput(n) ==
    [Event("user_input") EXCEPT !.data.has = {"input"}, !.data.input = Text(n)]
ToolStart ==
    [Event("tool_execute_start") EXCEPT !.data.has = {"tool_name"}, !.data.tool_name = "fs_read"]
ToolStartMcp(server) ==
    [Event("tool_execute_start") EXCEPT !.data.has = {"tool_name", "mcp_server"},
                                        !.data.tool_name = "search",
                                        !.data.mcp_server = server]
ToolEnd(status) ==
    [Event("tool_execute_end") EXCEPT !.data.has = {"status"}, !.data.status = status]
ToolEndOutput(n) ==
    [Event("tool_execute_end") EXCEPT !.data.has = {"status", "output", "duration_ms"},
                                      !.data.status = "success",
                                      !.data.output = Text(n),
                                      !.data.duration_ms = 7]
Other == [Event("custom") EXCEPT !.ts = "yesterday"]

----------------------------------------------------------------------------
(* Lines printed.  One record per print call; s, t, n, m are its arguments *)

Line(k) == [k |-> k, s |-> "", t |-> <<>>, n |-> 0, m |-> 0]
LineS(k, s) == [Line(k) EXCEPT !.s = s]
LineT(k, t) == [Line(k) EXCEPT !.t = t]
LineN(k, n) == [Line(k) EXCEPT !.n = n]

----------------------------------------------------------------------------
(* find_audit_directory.  env.snap_matches is glob.glob of the snap        *)
(* pattern: the kinds of the matching entries, in glob's order (glob       *)
(* matches any existing entry named audit, a directory or not).            *)
(* env.xdg_set says whether XDG_DATA_HOME is in os.environ, env.kind gives *)
(* for each base what is at <base>/amazon-q-cli/audit: "absent", "dir" or  *)
(* "file" (Path.exists is true of both).                                   *)

Kinds == {"dir", "file"}

None == [path |-> "None", n |-> 0, kind |-> "absent"]

find_audit_directory(e) ==
    IF e.snap_matches # <<>>
    THEN [path |-> "snap", n |-> 1, kind |-> e.snap_matches[1]]
    ELSE LET xdg_data == IF e.xdg_set THEN "xdg" ELSE "home"
             standard_dir == [path |-> xdg_data, n |-> 0, kind |-> e.kind[xdg_data]]
         IN  IF standard_dir.kind # "absent" THEN standard_dir ELSE None

----------------------------------------------------------------------------
(* load_session_events.  A file is [id, mtime, readable, lines]; open()    *)
(* raises on a file that is not readable.  The result is the list of       *)
(* events and the exception caught, "none" if there was none.              *)

RECURSIVE LoadLines(_, _, _)
LoadLines(lines, i, acc) ==
    IF i > Len(lines) THEN [events |-> acc, error |-> "none"]
    ELSE IF lines[i].kind = "blank" THEN LoadLines(lines, i + 1, acc)
    ELSE IF lines[i].kind = "bad" THEN [events |-> acc, error |-> "json"]
    ELSE LoadLines(lines, i + 1, Append(acc, lines[i]))

\* a loader that parses blank lines instead of skipping them
RECURSIVE LoadLinesNoSkip(_, _, _)
LoadLinesNoSkip(lines, i, acc) ==
    IF i > Len(lines) THEN [events |-> acc, error |-> "none"]
    ELSE IF lines[i].kind \in {"blank", "bad"} THEN [events |-> acc, error |-> "json"]
    ELSE LoadLinesNoSkip(lines, i + 1, Append(acc, lines[i]))

load_session_events_NoSkip(f) ==
    IF ~f.readable THEN [events |-> <<>>, error |-> "io"]
    ELSE LoadLinesNoSkip(f.lines, 1, <<>>)

load_session_events(f) ==
    IF ~f.readable THEN [events |-> <<>>, error |-> "io"]
    ELSE LoadLines(f.lines, 1, <<>>)

\* the except clause's print: the lines it puts on each channel
ErrorReading(f, error) == [LineN("Error reading", f.id) EXCEPT !.s = error]

LoadStdout(f, r) == IF r.error # "none" THEN <<ErrorReading(f, r.error)>> ELSE <<>>

LoadStderr(f, r) == <<>>

----------------------------------------------------------------------------
(* format_timestamp *)

format_timestamp(ts) ==
    IF ts \in {"2024-05-01T10:00:00Z", "2024-05-01T10:00:00+00:00"}
    THEN "2024-05-01 10:00:00"
    ELSE ts

----------------------------------------------------------------------------
(* print_tool_execution and the rendering of one event.  A result is       *)
(* [crash, out]: whether an exception escaped, and the lines printed.      *)

TruncateOutput(output) ==
    IF Len(output) > OutputLimit
    THEN SubSeq(output, 1, OutputLimit) \o Ellipsis
    ELSE output

\* a truncation that already cuts a text of exactly the limit
TruncateInputAtLimit(user_input) ==
    IF Len(user_input) >= UserInputLimit
    THEN SubSeq(user_input, 1, UserInputLimit) \o Ellipsis
    ELSE user_input

TruncateInput(user_input) ==
    IF Len(user_input) > UserInputLimit
    THEN SubSeq(user_input, 1, UserInputLimit) \o Ellipsis
    ELSE user_input

\* a test of the key alone, true of an empty server name
HasMcpServerKey(data) == "mcp_server" \in data.has

\* truthiness of data.get('mcp_server')
HasMcpServer(data) == "mcp_server" \in data.has /\ data.mcp_server # ""

Crash == [crash |-> TRUE, out |-> <<>>]
Printed(out) == [crash |-> FALSE, out |-> out]

print_tool_execution(event) ==
    IF "data" \notin event.has THEN Crash
    ELSE LET data == event.data IN
         IF event.type = "tool_execute_start"
         THEN IF "tool_name" \notin data.has THEN Crash
              ELSE Printed(<<LineS("Tool started", data.tool_name)>>
                           \o (IF HasMcpServer(data)
                               THEN <<LineS("Server", data.mcp_server)>> ELSE <<>>))
         ELSE IF event.type = "tool_execute_end"
         THEN IF "status" \notin data.has THEN Crash
              ELSE Printed(<<[LineS("Finished", data.status) EXCEPT
                                 !.m = IF data.status = "success" THEN 1 ELSE 0]>>
                           \o (IF "output" \in data.has
                               THEN <<LineT("Output", TruncateOutput(data.output))>> ELSE <<>>)
                           \o (IF "duration_ms" \in data.has
                               THEN <<LineN("Duration", data.duration_ms)>> ELSE <<>>))
         ELSE Printed(<<>>)

\* one iteration of analyze_session's for loop
RenderOne(event) ==
    IF ~event.obj \/ "ts" \notin event.has \/ "type" \notin event.has THEN Crash
    ELSE LET ts == format_timestamp(event.ts) IN
         IF event.type = "session_start"
         THEN IF "data" \notin event.has THEN Crash
              ELSE Printed(<<LineS("Started", ts),
                             LineS("Model", IF "model_id" \in event.data.has
                                            THEN event.data.model_id ELSE "Unknown"),
                             LineS("Interactive",
                                   IF "interactive" \in event.data.has /\ event.data.interactive
                                   THEN "True" ELSE "False")>>)
         ELSE IF event.type = "user_input"
         THEN IF "data" \notin event.has \/ "input" \notin event.data.has THEN Crash
              ELSE Printed(<<LineT("Input", TruncateInput(event.data.input))>>)
         ELSE IF event.type \in {"tool_execute_start", "tool_execute_end"}
         THEN print_tool_execution(event)
         ELSE IF event.type = "session_end"
         THEN Printed(<<LineS("Ended", ts)>>)
         ELSE Printed(<<>>)

\* the counters after one iteration that did not raise
CountTool(event, count) ==
    IF event.type = "tool_execute_start" THEN count + 1 ELSE count

CountMcp(event, count) ==
    IF event.type = "tool_execute_start" /\ "data" \in event.has /\ HasMcpServer(event.data)
    THEN count + 1 ELSE count

\* the traceback of an uncaught exception
Traceback == Line("Traceback")

----------------------------------------------------------------------------
(* main's discovery *)

\* audit_dir.glob("session-*.jsonl"): nothing unless audit_dir is a directory
Glob(dir) == IF dir.kind = "dir" THEN files ELSE <<>>

\* list.sort(key=st_mtime, reverse=True): stable, descending
RECURSIVE InsertDesc(_, _)
InsertDesc(sorted, f) ==
    IF sorted = <<>> THEN <<f>>
    ELSE IF Head(sorted).mtime >= f.mtime
         THEN <<Head(sorted)>> \o InsertDesc(Tail(sorted), f)
         ELSE <<f>> \o sorted

RECURSIVE SortByMtimeDesc(_)
SortByMtimeDesc(fs) ==
    IF fs = <<>> THEN <<>>
    ELSE InsertDesc(SortByMtimeDesc(SubSeq(fs, 1, Len(fs) - 1)), fs[Len(fs)])

\* session_files[:5]
Latest(fs) == Take(fs, LatestSessions)

\* a discovery that reports the count before it tests for no files
DiscoveryOutputCountFirst(dir, listed) ==
    <<LineS("Audit directory", dir.path), LineN("Found", Len(listed))>>
    \o (IF listed = <<>> THEN <<Line("No session files found")>> ELSE <<>>)

\* what main prints once the directory is resolved and globbed
DiscoveryOutput(dir, listed) ==
    <<LineS("Audit directory", dir.path)>>
    \o (IF listed = <<>> THEN <<Line("No session files found")>>
        ELSE <<LineN("Found", Len(listed))>>)

----------------------------------------------------------------------------
(* The program: main, with analyze_session inlined at its call site *)

\* main, line 111: audit_dir = find_audit_directory()
FindAuditDirectory ==
    /\ pc = "start"
    /\ audit_dir' = find_audit_directory(env)
    /\ pc' = "located"
    /\ UNCHANGED <<env, files, session_files, idx, events, ev, tool_count,
                   mcp_tool_count, stdout, stderr, analysed, opened, mark>>

\* main, lines 112-127: the two early returns, the glob, the sort
Discover ==
    /\ pc = "located"
    /\ IF audit_dir = None
       THEN /\ stdout' = Append(stdout, Line("No audit directory found"))
            /\ pc' = "done"
            /\ UNCHANGED <<session_files, idx>>
       ELSE LET listed == Glob(audit_dir) IN
            /\ stdout' = stdout \o DiscoveryOutput(audit_dir, listed)
            /\ IF listed = <<>>
               THEN pc' = "done" /\ UNCHANGED <<session_files, idx>>
               ELSE /\ session_files' = SortByMtimeDesc(listed)
                    /\ idx' = 1
                    /\ pc' = "loop"
    /\ UNCHANGED <<env, files, audit_dir, events, ev, tool_count, mcp_tool_count,
                   stderr, analysed, opened, mark>>

\* main, line 131, and analyze_session, lines 69-78: the load, the early
\* return on no events, the header
AnalyzeSession ==
    /\ pc = "loop"
    /\ idx <= Len(Latest(session_files))
    /\ LET session_file == session_files[idx]
           r == load_session_events(session_file)
           loaded == stdout \o LoadStdout(session_file, r)
       IN  /\ analysed' = Append(analysed, session_file.id)
           /\ opened' = Append(opened, session_file.id)
           /\ mark' = Len(stdout)
           /\ events' = r.events
           /\ tool_count' = 0
           /\ mcp_tool_count' = 0
           /\ IF r.events = <<>>
              THEN /\ stdout' = loaded
                   /\ stderr' = stderr \o LoadStderr(session_file, r)
                   /\ idx' = idx + 1
                   /\ pc' = "loop"
                   /\ ev' = 0
              ELSE IF ~r.events[1].obj \/ "session_id" \notin r.events[1].has
              THEN /\ stdout' = loaded
                   /\ stderr' = Append(stderr \o LoadStderr(session_file, r), Traceback)
                   /\ pc' = "crashed"
                   /\ UNCHANGED <<idx, ev>>
              ELSE /\ stdout' = loaded \o <<LineS("Session", r.events[1].session_id),
                                            LineN("File", session_file.id)>>
                   /\ stderr' = stderr \o LoadStderr(session_file, r)
                   /\ ev' = 1
                   /\ pc' = "render"
                   /\ UNCHANGED idx
    /\ UNCHANGED <<env, files, audit_dir, session_files>>

\* analyze_session, lines 80-106: one iteration of the for loop
RenderEvent ==
    /\ pc = "render"
    /\ ev <= Len(events)
    /\ LET event == events[ev]
           r == RenderOne(event)
           typed == event.obj /\ "ts" \in event.has /\ "type" \in event.has
       IN  /\ tool_count' = IF typed THEN CountTool(event, tool_count) ELSE tool_count
           /\ mcp_tool_count' = IF typed THEN CountMcp(event, mcp_tool_count)
                                ELSE mcp_tool_count
           /\ IF r.crash
              THEN /\ pc' = "crashed"
                   /\ stderr' = Append(stderr, Traceback)
                   /\ UNCHANGED <<stdout, ev>>
              ELSE /\ stdout' = stdout \o r.out
                   /\ ev' = ev + 1
                   /\ UNCHANGED <<pc, stderr>>
    /\ UNCHANGED <<env, files, audit_dir, session_files, idx, events, analysed,
                   opened, mark>>

\* analyze_session, line 108, and the return to main's loop
Footer ==
    /\ pc = "render"
    /\ ev > Len(events)
    /\ stdout' = Append(stdout, [LineN("Total tools", tool_count) EXCEPT !.m = mcp_tool_count])
    /\ idx' = idx + 1
    /\ pc' = "loop"
    /\ UNCHANGED <<env, files, audit_dir, session_files, events, ev, tool_count,
                   mcp_tool_count, stderr, analysed, opened, mark>>

\* main's for loop is exhausted: main returns
MainReturn ==
    /\ pc = "loop"
    /\ idx > Len(Latest(session_files))
    /\ pc' = "done"
    /\ UNCHANGED <<env, files, audit_dir, session_files, idx, events, ev, tool_count,
                   mcp_tool_count, stdout, stderr, analysed, opened, mark>>

Next ==
    \/ FindAuditDirectory
    \/ Discover
    \/ AnalyzeSession
    \/ RenderEvent
    \/ Footer
    \/ MainReturn

----------------------------------------------------------------------------
(* Inputs *)

SeqsUpTo(S, n) == UNION {[1..k -> S] : k \in 0..n}

Bases == {"xdg", "home"}

Envs ==
    [snap_matches : SeqsUpTo(Kinds, MaxSnap),
     xdg_set : BOOLEAN,
     kind : [Bases -> {"absent", "dir", "file"}]]

\* no snap install, XDG_DATA_HOME unset, ~/.local/share/amazon-q-cli/audit a directory
HomeEnv ==
    [snap_matches |-> <<>>, xdg_set |-> FALSE,
     kind |-> [b \in Bases |-> IF b = "home" THEN "dir" ELSE "absent"]]

NoEnv ==
    [snap_matches |-> <<>>, xdg_set |-> FALSE, kind |-> [b \in Bases |-> "absent"]]

\* a directory listing from per-file [mtime, readable, lines]; ids are positions
Listing(fs) ==
    [i \in 1..Len(fs) |-> [id |-> i, mtime |-> fs[i].mtime,
                           readable |-> fs[i].readable, lines |-> fs[i].lines]]

Readable(lines) == [readable |-> TRUE, lines |-> lines]
Unreadable == [readable |-> FALSE, lines |-> <<>>]

GoodSession ==
    <<SessionStart, UserInput(3), ToolStartMcp("srv"), ToolEndOutput(4), SessionEnd>>

WithoutData(e, key) == [e EXCEPT !.data.has = @ \ {key}]

Contents ==
    { Unreadable,
      Readable(<<>>),
      Readable(<<Blank, Blank>>),
      Readable(<<Bad>>),
      Readable(<<SessionEnd, Bad, SessionStart>>),
      Readable(GoodSession),
      Readable(<<NonObject>>),
      Readable(<<Without(SessionEnd, "session_id")>>),
      Readable(<<Without(SessionEnd, "session_id"), Bad>>),
      Readable(<<SessionStart, Without(SessionEnd, "ts")>>),
      Readable(<<Without(SessionEnd, "type")>>),
      Readable(<<Without(SessionStart, "data")>>),
      Readable(<<WithoutData(ToolStart, "tool_name")>>),
      Readable(<<WithoutData(ToolEnd("error"), "status")>>),
      Readable(<<WithoutData(UserInput(2), "input")>>) }

WithMtime(C) == {[mtime |-> t, readable |-> c.readable, lines |-> c.lines] :
                 t \in 1..MaxMtime, c \in C}

InitProgram ==
    /\ pc = "start"
    /\ audit_dir = None
    /\ session_files = <<>>
    /\ idx = 0
    /\ events = <<>>
    /\ ev = 0
    /\ tool_count = 0
    /\ mcp_tool_count = 0
    /\ stdout = <<>>
    /\ stderr = <<>>
    /\ analysed = <<>>
    /\ opened = <<>>
    /\ mark = 0

\* error-handling runs: up to MaxFiles files of any of the Contents
Init ==
    /\ env \in {HomeEnv, NoEnv}
    /\ \E fs \in SeqsUpTo(WithMtime(Contents), MaxFiles) : files = Listing(fs)
    /\ InitProgram

Spec == Init /\ [][Next]_vars

\* locator runs: every environment, the directory empty or holding one session
InitLocate ==
    /\ env \in Envs
    /\ files \in {<<>>, Listing(<<[mtime |-> 1, readable |-> TRUE, lines |-> GoodSession]>>)}
    /\ InitProgram

SpecLocate == InitLocate /\ [][Next]_vars

\* selection runs: up to MaxListed well-formed files with any modification times
InitSelect ==
    /\ env = HomeEnv
    /\ \E fs \in SeqsUpTo(WithMtime({Readable(<<SessionEnd>>)}), MaxListed) :
           files = Listing(fs)
    /\ InitProgram

SpecSelect == InitSelect /\ [][Next]_vars

\* loader runs: one file of up to MaxLines lines, each blank, malformed or an event
LoaderLines == {Blank, Bad, SessionEnd, UserInput(1), Other}

InitLoad ==
    /\ env = HomeEnv
    /\ \E lines \in SeqsUpTo(LoaderLines, MaxLines) :
           files = Listing(<<[mtime |-> 1, readable |-> TRUE, lines |-> lines]>>)
    /\ InitProgram

SpecLoad == InitLoad /\ [][Next]_vars

\* counter runs: a session of up to MaxEvents events, alone or after another session
CounterEvents ==
    {ToolStart, ToolStartMcp("srv"), ToolStartMcp(""), ToolEnd("success"),
     ToolEndOutput(2), UserInput(2), WithoutData(ToolStart, "tool_name")}

InitCount ==
    /\ env = HomeEnv
    /\ \E evs \in SeqsUpTo(CounterEvents, MaxEvents) :
           files \in {Listing(<<[mtime |-> 1, readable |-> TRUE, lines |-> evs]>>),
                      Listing(<<[mtime |-> 2, readable |-> TRUE, lines |-> GoodSession],
                                [mtime |-> 1, readable |-> TRUE, lines |-> evs]>>)}
    /\ InitProgram

SpecCount == InitCount /\ [][Next]_vars

\* truncation runs: one user_input or tool_execute_end event with a text of
\* any length up to MaxTextLen
InitTrunc ==
    /\ env = HomeEnv
    /\ \E n \in 0..MaxTextLen :
           files \in {Listing(<<[mtime |-> 1, readable |-> TRUE, lines |-> <<UserInput(n)>>]>>),
                      Listing(<<[mtime |-> 1, readable |-> TRUE, lines |-> <<ToolEndOutput(n)>>]>>)}
    /\ InitProgram

SpecTrunc == InitTrunc /\ [][Next]_vars

----------------------------------------------------------------------------
(* Vocabulary of the properties *)

Ids(fs) == [i \in 1..Len(fs) |-> fs[i].id]

Selected == Latest(session_files)

\* the file of the current or last analyze_session call
LastFile == files[analysed[Len(analysed)]]

\* what has been printed since the current or last analyze_session call began
SessionOutput == SubSeq(stdout, mark + 1, Len(stdout))

HasBadLine(lines) == \E i \in 1..Len(lines) : lines[i].kind = "bad"

FirstBadPos(lines) ==
    CHOOSE k \in 1..Len(lines) :
        lines[k].kind = "bad" /\ \A j \in 1..(k - 1) : lines[j].kind # "bad"

NumBlank(lines) == Cardinality({i \in 1..Len(lines) : lines[i].kind = "blank"})

NonBlank(lines) == SelectSeq(lines, LAMBDA l : l.kind # "blank")

LoadFails(f) == ~f.readable \/ HasBadLine(f.lines)

NumKind(out, k) == Cardinality({i \in 1..Len(out) : out[i].k = k})

Terminated == pc \in {"done", "crashed"}

----------------------------------------------------------------------------
(* Properties *)

\* C1: a run of main over any session files never ends by an uncaught
\* exception, and when it ends every selected file has been analysed,
\* whatever an earlier file held.
C1_NoUncaughtException ==
    /\ pc # "crashed"
    /\ (pc = "done" /\ session_files # <<>>) => analysed = Ids(Selected)

\* C2: once load_session_events has caught a parse failure or an I/O error
\* in a selected file, main still calls analyze_session on every remaining
\* selected file, in order: at the end of the run the calls made are
\* exactly the selected files.
C2_LoadFailureContained ==
    (Terminated /\ \E i \in 1..Len(analysed) : LoadFails(files[analysed[i]]))
        => analysed = Ids(Selected)

\* C3 as stated: a file whose first malformed line is at position k loads
\* exactly k-1 events, the lines before the bad line.
C3_ExactlyKMinusOne ==
    (analysed # <<>> /\ LastFile.readable /\ HasBadLine(LastFile.lines))
        => LET k == FirstBadPos(LastFile.lines) IN
           /\ Len(events) = k - 1
           /\ events = SubSeq(LastFile.lines, 1, k - 1)

\* C3 amended: a file whose first malformed line is at position k loads
\* exactly one event per non-blank line before the bad line, in file order
\* (k-1 less the blank lines among them), no line after the bad line
\* contributes, and the failure is printed as one line, not raised.
C3_NonBlankBeforeBadLine ==
    (analysed # <<>> /\ LastFile.readable /\ HasBadLine(LastFile.lines))
        => LET k == FirstBadPos(LastFile.lines)
               before == SubSeq(LastFile.lines, 1, k - 1)
           IN  /\ events = NonBlank(before)
               /\ Len(events) = (k - 1) - NumBlank(before)
               /\ NumKind(SessionOutput, "Error reading")
                    + NumKind(stderr, "Error reading") = 1

C3_Witness ==
    /\ analysed # <<>>
    /\ LastFile.readable
    /\ HasBadLine(LastFile.lines)
    /\ FirstBadPos(LastFile.lines) = 3
    /\ LastFile.lines[1].kind = "blank"
    /\ Len(events) = 1
    /\ pc = "done"

\* C4: with n >= 1 session files in the resolved directory, main analyses
\* exactly the min(n, 5) files with the greatest modification times, in
\* descending order of modification time, and opens no other file.
C4_LatestFiveAnalysed ==
    (Terminated /\ audit_dir.kind = "dir" /\ files # <<>>)
        => /\ Len(analysed) = Min(Len(files), 5)
           /\ \A i, j \in 1..Len(analysed) :
                  i < j => /\ analysed[i] # analysed[j]
                           /\ files[analysed[i]].mtime >= files[analysed[j]].mtime
           /\ \A i \in 1..Len(analysed) : \A f \in 1..Len(files) :
                  (\A j \in 1..Len(analysed) : analysed[j] # f)
                      => files[analysed[i]].mtime >= files[f].mtime
           /\ opened = analysed

\* The selection on its own: the files analysed so far are distinct, in
\* descending order of modification time, no older than any file not
\* analysed, at most five, all of the latest five once main returns, and
\* the only files opened.
SelectionOrder ==
    /\ Len(analysed) <= Min(Len(files), 5)
    /\ (pc = "done" /\ audit_dir.kind = "dir") => Len(analysed) = Min(Len(files), 5)
    /\ \A i, j \in 1..Len(analysed) :
           i < j => /\ analysed[i] # analysed[j]
                    /\ files[analysed[i]].mtime >= files[analysed[j]].mtime
    /\ \A i \in 1..Len(analysed) : \A f \in 1..Len(files) :
           (\A j \in 1..Len(analysed) : analysed[j] # f)
               => files[analysed[i]].mtime >= files[f].mtime
    /\ opened = analysed

\* C5 as stated: with an existing directory holding no session file, the
\* whole output of main is the one "no session files found" line.
C5_OnlyNoSessionFilesLine ==
    (pc = "done" /\ audit_dir.kind = "dir" /\ files = <<>>)
        => stdout = <<Line("No session files found")>>

\* C5 amended: with an existing directory holding no session file, the
\* whole output of main is the "audit directory" line naming the directory
\* followed by the one "no session files found" line, and nothing else.
C5_DirectoryThenNoSessionFiles ==
    (pc = "done" /\ audit_dir.kind = "dir" /\ files = <<>>)
        => /\ Len(stdout) = 2
           /\ stdout[1].k = "Audit directory"
           /\ stdout[1].s = audit_dir.path
           /\ stdout[2].k = "No session files found"
           /\ stderr = <<>>
           /\ analysed = <<>>

C5_Witness ==
    /\ pc = "done"
    /\ audit_dir.kind = "dir"
    /\ files = <<>>
    /\ stdout # <<>>

\* C6: while a session is rendered the total is the number of
\* tool_execute_start events rendered so far and the MCP count the number
\* of those whose data has a present, non-empty mcp_server, so that no
\* other event type changes either counter and the MCP count never exceeds
\* the total; the footer of a session rendered to completion reports both
\* counts over the whole event sequence.
IsStart(e) == e.type = "tool_execute_start"
IsMcpStart(e) == IsStart(e) /\ "mcp_server" \in e.data.has /\ e.data.mcp_server # ""
NumStarts(es) == Cardinality({i \in 1..Len(es) : IsStart(es[i])})
NumMcpStarts(es) == Cardinality({i \in 1..Len(es) : IsMcpStart(es[i])})

C6_FooterCounts ==
    /\ pc = "render"
         => /\ tool_count = NumStarts(SubSeq(events, 1, ev - 1))
            /\ mcp_tool_count = NumMcpStarts(SubSeq(events, 1, ev - 1))
            /\ mcp_tool_count <= tool_count
    /\ (pc \in {"loop", "done"} /\ analysed # <<>> /\ events # <<>>)
         => LET footer == stdout[Len(stdout)] IN
            /\ footer.k = "Total tools"
            /\ footer.n = NumStarts(events)
            /\ footer.m = NumMcpStarts(events)
            /\ footer.m <= footer.n

C6_Witness ==
    /\ pc = "done"
    /\ Len(events) = 3
    /\ stdout[Len(stdout)].k = "Total tools"
    /\ stdout[Len(stdout)].n = 3
    /\ stdout[Len(stdout)].m = 1
    /\ \E i \in 1..3 : events[i] = ToolStartMcp("")

\* C7: every read or parse failure of load_session_events puts exactly one
\* "Error reading <path>: <message>" line on standard error and nothing
\* about it on standard output.
C7_ErrorLineOnStderr ==
    /\ NumKind(stderr, "Error reading")
         = Cardinality({i \in 1..Len(analysed) : LoadFails(files[analysed[i]])})
    /\ NumKind(stdout, "Error reading") = 0

\* C8: find_audit_directory returns the first snap glob match if there is
\* one, else <base>/amazon-q-cli/audit if it exists, <base> being
\* XDG_DATA_HOME when set and the default under the home otherwise, else
\* None; and a path it returns is an existing directory.
C8_FirstExistingDirectory ==
    pc # "start"
        => LET base == IF env.xdg_set THEN "xdg" ELSE "home" IN
           /\ env.snap_matches # <<>>
                => audit_dir.path = "snap" /\ audit_dir.n = 1
           /\ (env.snap_matches = <<>> /\ env.kind[base] # "absent")
                => audit_dir.path = base
           /\ (env.snap_matches = <<>> /\ env.kind[base] = "absent")
                => audit_dir = None
           /\ audit_dir # None => audit_dir.kind = "dir"

\* C9: a rendered user_input text of length <= 100 is printed unmodified
\* and a longer one as its first 100 characters followed by "..."; a
\* rendered tool_execute_end output of length <= 200 is printed unmodified
\* and a longer one as its first 200 characters followed by "...".
CutAt(printed, text, limit) ==
    IF Len(text) <= limit
    THEN printed = text
    ELSE /\ Len(printed) = limit + 3
         /\ \A i \in 1..limit : printed[i] = text[i]
         /\ \A i \in (limit + 1)..(limit + 3) : printed[i] = "."

C9_TruncatedAtLimit ==
    (pc = "render" /\ ev > 1)
        => LET event == events[ev - 1]
               last == stdout[Len(stdout)]
           IN  /\ event.type = "user_input"
                    => last.k = "Input" /\ CutAt(last.t, event.data.input, 100)
               /\ (event.type = "tool_execute_end" /\ "output" \in event.data.has)
                    => \E i \in (mark + 1)..Len(stdout) :
                           /\ stdout[i].k = "Output"
                           /\ CutAt(stdout[i].t, event.data.output, 200)

C9_Witness ==
    /\ pc = "render"
    /\ ev = 2
    /\ events[1].type = "user_input"
    /\ Len(events[1].data.input) = 101
    /\ Len(stdout[Len(stdout)].t) = 103

\* C10: analysing a session file whose loaded event sequence is empty (an
\* empty file, only blank lines, an unreadable file, a malformed first
\* non-blank line) prints nothing at all for it.
C10_EmptySessionSilent ==
    (analysed # <<>> /\ events = <<>>) => SessionOutput = <<>>

====
